---- MODULE Spec2Model ----
(***************************************************************************)
(* The visual screenshot comparison engine of the web-scraper MCP server:  *)
(* analyzeVisualDifferences and the analyzers it calls (analyzeLayout,     *)
(* analyzeColors, analyzeTypography), and the compareScreenshots tool that *)
(* feeds it.                                                               *)
(*                                                                         *)
(* Numbers.  JavaScript numbers are IEEE doubles.  Every quotient the code *)
(* forms has integer operands below 2^53, so a quotient is kept as the     *)
(* exact fraction n/d, 0/0 as NaN and n/0 (n > 0) as Infinity, and every   *)
(* comparison against a decimal literal (0.3, 0.1, 30) is made by cross    *)
(* multiplication.  The fractions compared here differ from the literals   *)
(* by far more than one rounding step or are equal to them.                *)
(*                                                                         *)
(* Buffers.  A raw buffer is width*height*3 bytes, row-major, R,G,B.  The  *)
(* state keeps a buffer as a description [w, h, pat] and At(buf, i) is the *)
(* byte the buffer holds at index i.                                       *)
(***************************************************************************)
EXTENDS Integers, Sequences, FiniteSets, TLC

VARIABLES
    args,        \* arguments of the compare_screenshots call
    imageA,      \* screenshot of urlA
    imageB,      \* screenshot of urlB
    result,      \* what compareScreenshots returned, once it has
    pc,          \* position inside compareScreenshots / analyzeVisualDifferences
    bufferA,     \* raw RGB buffer of the source image
    bufferB,     \* raw RGB buffer of the target image
    minWidth,    \* width both buffers were resized to
    minHeight,   \* height both buffers were resized to
    options,     \* {analyzeLayout, analyzeColors, analyzeTypography, threshold}
    analysis,    \* the analysis object under construction
    i,           \* loop counter of analyzeColors
    colorDiffs,  \* colorDiffs of analyzeColors
    draws,       \* what one pass of the sampling loop can push, by the pixel drawn
    browser,     \* the browser getBrowser launched: "none", "open" or "closed"
    context,     \* its browser context: "none", "open" or "closed"
    completion,  \* how the try block of compareScreenshots completed, once it has
    now,         \* the last value Date.now() gave
    files,       \* the files under /tmp, by path
    calls        \* the compare_screenshots requests the server is working on

session == <<browser, context>>

server == <<now, files, calls>>

request == <<args, imageA, imageB, result, completion, session, server>>

vars == <<args, imageA, imageB, result, pc, bufferA, bufferB, minWidth, minHeight, options, analysis, i,
         colorDiffs, draws, browser, context, completion, now, files, calls>>

(***************************************************************************)
(* Bounds of the model.                                                    *)
(***************************************************************************)
\* Largest number of pixels of a buffer whose pixels are enumerated one by one.
MaxPixels == 2

(***************************************************************************)
(* JavaScript values.                                                      *)
(***************************************************************************)
Undefined == "undefined"
Empty == [empty |-> TRUE]                    \* the object literal {}

Rat(n, d) == [k |-> "rat", n |-> n, d |-> d] \* the number n/d, d > 0
NaN == [k |-> "nan", n |-> 0, d |-> 0]
Infinity == [k |-> "inf", n |-> 1, d |-> 0]
NegInfinity == [k |-> "inf", n |-> -1, d |-> 0]

\* a / b for integers a >= 0, b >= 0.
FDiv(a, b) ==
    IF b # 0 THEN Rat(a, b)
    ELSE IF a = 0 THEN NaN ELSE Infinity

\* 1 - x.
OneMinus(x) ==
    CASE x.k = "rat" -> Rat(x.d - x.n, x.d)
      [] x.k = "nan" -> NaN
      [] OTHER -> IF x.n > 0 THEN NegInfinity ELSE Infinity

\* x >= y; every comparison with NaN is false.
GEq(x, y) ==
    CASE x.k = "nan" \/ y.k = "nan" -> FALSE
      [] x.k = "rat" /\ y.k = "rat" -> x.n * y.d >= y.n * x.d
      [] x.k = "inf" -> x.n > 0 \/ (y.k = "inf" /\ y.n < 0)
      [] OTHER -> y.n < 0

\* x > y.
Gt(x, y) == GEq(x, y) /\ ~GEq(y, x)

Range(seq) == {seq[k] : k \in 1..Len(seq)}

Abs(x) == IF x < 0 THEN -x ELSE x
Min(a, b) == IF a < b THEN a ELSE b
Max(a, b) == IF a > b THEN a ELSE b

\* Sum of f[k] for lo <= k < hi, the value of the loop
\*   for (k = lo; k < hi; k++) total += f[k]
\* over integers (the sums stay below 2^53, so the additions are exact and
\* their order does not matter).
RECURSIVE SumOver(_, _, _)
SumOver(f, lo, hi) ==
    IF hi <= lo THEN 0
    ELSE IF hi = lo + 1 THEN f[lo]
    ELSE LET mid == (lo + hi) \div 2
         IN  SumOver(f, lo, mid) + SumOver(f, mid, hi)

(***************************************************************************)
(* Raw buffers.                                                            *)
(***************************************************************************)
Black == <<0, 0, 0>>
White == <<255, 255, 255>>
Gray  == <<128, 128, 128>>
Slate == <<110, 128, 140>>
Palette == {Black, White, Gray, Slate}

Solid(w, h, c) == [w |-> w, h |-> h, pat |-> [kind |-> "solid", c |-> c]]
Pixels(w, h, px) == [w |-> w, h |-> h, pat |-> [kind |-> "pixels", px |-> px]]
\* Colour cin on the pixels with x0 <= x < x1 and y0 <= y < y1, cout elsewhere.
Rect(w, h, x0, y0, x1, y1, cin, cout) ==
    [w |-> w, h |-> h,
     pat |-> [kind |-> "rect", x0 |-> x0, y0 |-> y0, x1 |-> x1, y1 |-> y1,
              cin |-> cin, cout |-> cout]]

\* The colour of pixel p (0-based, row-major) of a buffer.
PixelColor(buf, p) ==
    CASE buf.pat.kind = "solid" -> buf.pat.c
      [] buf.pat.kind = "pixels" -> buf.pat.px[p + 1]
      [] buf.pat.kind = "rect" ->
            LET x == p % buf.w
                y == p \div buf.w
            IN  IF /\ buf.pat.x0 <= x /\ x < buf.pat.x1
                   /\ buf.pat.y0 <= y /\ y < buf.pat.y1
                THEN buf.pat.cin ELSE buf.pat.cout

\* buffer.length
Length(buf) == buf.w * buf.h * 3

\* buffer[idx]: the byte at idx, undefined outside the buffer.
At(buf, idx) ==
    IF idx < 0 \/ idx >= Length(buf) THEN Undefined
    ELSE PixelColor(buf, idx \div 3)[(idx % 3) + 1]

\* The buffers of w*h pixels with every pixel drawn from the palette.
RECURSIVE PixelSeqs(_)
PixelSeqs(n) ==
    IF n = 0 THEN {<<>>}
    ELSE {Append(s, c) : s \in PixelSeqs(n - 1), c \in Palette}

TinyDims == {d \in (0..MaxPixels) \X (0..MaxPixels) : d[1] * d[2] <= MaxPixels}
TinyBuffers(w, h) == {Pixels(w, h, px) : px \in PixelSeqs(w * h)}

\* The thresholds a caller supplies.
Thresholds == {Rat(-1, 10), Rat(0, 1), Rat(1, 10), Rat(1, 2), Rat(1, 1)}

(***************************************************************************)
(* analyzeVisualDifferences: overall similarity.                           *)
(***************************************************************************)
\* totalDiff after the loop over bufferA.length.
TotalDiff(bufA, bufB) ==
    SumOver([k \in 0..(Length(bufA) - 1) |-> Abs(At(bufA, k) - At(bufB, k))],
            0, Length(bufA))

\* SimilarityOf with the complement forgotten: the difference ratio itself.
SimilarityOfRatio(bufA, bufB, w, h) ==
    FDiv(TotalDiff(bufA, bufB), w * h * 3 * 255)

\* analysis.similarity
SimilarityOf(bufA, bufB, w, h) ==
    LET totalPixels == w * h * 3
    IN  OneMinus(FDiv(TotalDiff(bufA, bufB), totalPixels * 255))

\* SimilarOf with the comparison turned around.
SimilarOfFlipped(similarity, threshold) == GEq(OneMinus(threshold), similarity)

\* analysis.similar
SimilarOf(similarity, threshold) == GEq(similarity, OneMinus(threshold))

Similarity ==
    /\ pc = "similarity"
    /\ analysis' = [analysis EXCEPT
          !.similarity = SimilarityOf(bufferA, bufferB, minWidth, minHeight),
          !.similar = SimilarOf(SimilarityOf(bufferA, bufferB, minWidth, minHeight),
                                options.threshold)]
    /\ pc' = "returned"
    /\ UNCHANGED <<request, bufferA, bufferB, minWidth, minHeight, options, i, colorDiffs, draws>>

\* const colorDiffs = []
NoColorDiffs == [length |-> 0, first10 |-> <<>>]

\* The analysis object with the sizes taken after the resize.
NewAnalysisResized(metaA, metaB) ==
    LET resized == [width |-> Min(metaA.width, metaB.width),
                    height |-> Min(metaA.height, metaB.height)]
    IN  [dimensions |-> [source |-> resized, target |-> resized, match |-> TRUE],
         layout |-> Empty, colors |-> Empty, typography |-> Empty,
         similarity |-> Rat(0, 1), similar |-> Undefined]

\* The analysis object as created before the buffers are read.
NewAnalysis(metaA, metaB) ==
    [dimensions |-> [source |-> [width |-> metaA.width, height |-> metaA.height],
                     target |-> [width |-> metaB.width, height |-> metaB.height],
                     match |-> metaA.width = metaB.width /\ metaA.height = metaB.height],
     layout |-> Empty, colors |-> Empty, typography |-> Empty,
     similarity |-> Rat(0, 1), similar |-> Undefined]

\* The state outside analyzeVisualDifferences when an analyzer is run on its
\* own on two buffers of the same width and height.
NoArgs == [given |-> {}]
NoImage == [w |-> 0, h |-> 0]
NoResult == [returned |-> FALSE]
NoFiles == [path \in {} |-> NoImage]
NoCalls == [r \in {} |-> NoResult]

\* No browser, no file and no other request.
Offline ==
    /\ browser = "none"
    /\ context = "none"
    /\ completion = NoResult
    /\ now = 0
    /\ files = NoFiles
    /\ calls = NoCalls

OnBuffers ==
    /\ Offline
    /\ args = NoArgs
    /\ imageA = NoImage
    /\ imageB = NoImage
    /\ result = NoResult
    /\ analysis = NewAnalysis([width |-> minWidth, height |-> minHeight],
                              [width |-> minWidth, height |-> minHeight])
    /\ i = 0
    /\ colorDiffs = NoColorDiffs
    /\ draws = {}

Flags(l, c, t, th) ==
    [analyzeLayout |-> l, analyzeColors |-> c, analyzeTypography |-> t, threshold |-> th]

(***************************************************************************)
(* The similarity computation on its own, over every pair of small         *)
(* buffers of equal size, the empty ones included.                         *)
(***************************************************************************)
InitSimilarity ==
    /\ pc = "similarity"
    /\ \E d \in TinyDims :
          /\ minWidth = d[1]
          /\ minHeight = d[2]
          /\ bufferA \in TinyBuffers(d[1], d[2])
          /\ bufferB \in TinyBuffers(d[1], d[2])
    /\ \E th \in Thresholds : options = Flags(FALSE, FALSE, FALSE, th)
    /\ OnBuffers

SpecSimilarity == InitSimilarity /\ [][Similarity]_vars

(***************************************************************************)
(* analyzeLayout and its helpers.                                          *)
(***************************************************************************)
gridSize == 20

\* totalDiff and pixelCount of compareCellContent after its two loops: the
\* pixels of the cell whose index passes the guard pixelIndex + 2 < length.
CellSums(bufA, bufB, startX, startY, cellWidth, cellHeight, imageWidth, shift) ==
    LET n == cellWidth * cellHeight
        PixelIndex(k) ==
            ((startY + (k \div cellWidth)) * imageWidth + startX + (k % cellWidth)) * 3
        InBuffer(k) == PixelIndex(k) + 2 < Length(bufA)
        Diff(k) ==
            LET a == PixelIndex(k)
                b == PixelIndex(k) + shift
            IN  Abs(At(bufA, a) - At(bufB, b))
                + Abs(At(bufA, a + 1) - At(bufB, b + 1))
                + Abs(At(bufA, a + 2) - At(bufB, b + 2))
    IN  [totalDiff |-> SumOver([k \in 0..(n - 1) |-> IF InBuffer(k) THEN Diff(k) ELSE 0], 0, n),
         pixelCount |-> SumOver([k \in 0..(n - 1) |-> IF InBuffer(k) THEN 3 ELSE 0], 0, n)]

\* The values of pixelIndex for which the body of the two loops of
\* compareCellContent runs.
CellPixelIndexes(startX, startY, cellWidth, cellHeight, imageWidth, length) ==
    {pixelIndex \in {(y * imageWidth + x) * 3 :
                        x \in startX..(startX + cellWidth - 1),
                        y \in startY..(startY + cellHeight - 1)} :
        pixelIndex + 2 < length}

\* compareCellContent taking a cell without pixels for a different one.
compareCellContentEmptyIsOne(bufA, bufB, startX, startY, cellWidth, cellHeight, imageWidth) ==
    LET s == CellSums(bufA, bufB, startX, startY, cellWidth, cellHeight, imageWidth, 0)
    IN  IF s.pixelCount > 0 THEN FDiv(s.totalDiff, s.pixelCount * 255) ELSE Rat(1, 1)

\* compareCellContent reading bufferB one pixel further than bufferA.
compareCellContentShifted(bufA, bufB, startX, startY, cellWidth, cellHeight, imageWidth) ==
    LET s == CellSums(bufA, bufB, startX, startY, cellWidth, cellHeight,
                      imageWidth, IF startX + cellWidth < imageWidth THEN 3 ELSE 0)
    IN  IF s.pixelCount > 0 THEN FDiv(s.totalDiff, s.pixelCount * 255) ELSE Rat(0, 1)

compareCellContent(bufA, bufB, startX, startY, cellWidth, cellHeight, imageWidth) ==
    LET s == CellSums(bufA, bufB, startX, startY, cellWidth, cellHeight, imageWidth, 0)
    IN  IF s.pixelCount > 0 THEN FDiv(s.totalDiff, s.pixelCount * 255) ELSE Rat(0, 1)

\* getCellPosition with the two limits rounded down to whole cells.
getCellPositionFloored(row, col, gs) ==
    [vertical   |-> IF row < gs \div 3 THEN "top"
                    ELSE IF row > (2 * gs) \div 3 THEN "bottom" ELSE "center",
     horizontal |-> IF col < gs \div 3 THEN "left"
                    ELSE IF col > (2 * gs) \div 3 THEN "right" ELSE "center"]

\* row < gridSize / 3, row > 2 * gridSize / 3 (and the same for col).
getCellPosition(row, col, gs) ==
    [vertical   |-> IF 3 * row < gs THEN "top"
                    ELSE IF 3 * row > 2 * gs THEN "bottom" ELSE "center",
     horizontal |-> IF 3 * col < gs THEN "left"
                    ELSE IF 3 * col > 2 * gs THEN "right" ELSE "center"]

\* The template string `${vertical}-${horizontal}`.
RegionLabel(position) == position.vertical \o "-" \o position.horizontal

\* The characters of the words the labels are made of.
Spell(word) ==
    CASE word = "top"    -> <<"t", "o", "p">>
      [] word = "bottom" -> <<"b", "o", "t", "t", "o", "m">>
      [] word = "center" -> <<"c", "e", "n", "t", "e", "r">>
      [] word = "left"   -> <<"l", "e", "f", "t">>
      [] word = "right"  -> <<"r", "i", "g", "h", "t">>

\* The characters of a region label.
LabelChars(label) ==
    LET p == CHOOSE q \in {"top", "center", "bottom"} \X {"left", "center", "right"} :
                 RegionLabel([vertical |-> q[1], horizontal |-> q[2]]) = label
    IN  Spell(p[1]) \o <<"-">> \o Spell(p[2])

\* String.prototype.includes on character sequences.
Includes(text, needle) ==
    \E k \in 0..(Len(text) - Len(needle)) :
        SubSeq(text, k + 1, k + Len(needle)) = needle

AlignedLeft == "Content appears centered in source but left-aligned in target"
AlignedRight == "Content appears centered in source but right-aligned in target"

\* detectAlignmentDifferences asking for 'center' where it asks for
\* 'center-center'.
detectAlignmentDifferencesAnyCenter(layoutDiffs) ==
    LET Some(needle) ==
            \E k \in 1..Len(layoutDiffs) :
                Includes(LabelChars(layoutDiffs[k].region), needle)
        centerLeft == Spell("center") \o <<"-">> \o Spell("left")
        centerRight == Spell("center") \o <<"-">> \o Spell("right")
    IN  (IF Some(centerLeft) /\ Some(Spell("center")) THEN <<AlignedLeft>> ELSE <<>>)
        \o (IF Some(centerRight) /\ Some(Spell("center")) THEN <<AlignedRight>> ELSE <<>>)

detectAlignmentDifferences(layoutDiffs) ==
    LET Some(needle) ==
            \E k \in 1..Len(layoutDiffs) :
                Includes(LabelChars(layoutDiffs[k].region), needle)
        centerLeft == Spell("center") \o <<"-">> \o Spell("left")
        centerCenter == Spell("center") \o <<"-">> \o Spell("center")
        centerRight == Spell("center") \o <<"-">> \o Spell("right")
    IN  (IF Some(centerLeft) /\ Some(centerCenter) THEN <<AlignedLeft>> ELSE <<>>)
        \o (IF Some(centerRight) /\ Some(centerCenter) THEN <<AlignedRight>> ELSE <<>>)

\* A scan that starts every cell one cell width further to the right.
LayoutDiffsNextColumn(bufA, bufB, width, height) ==
    LET cellWidth == width \div gridSize
        cellHeight == height \div gridSize
        Cell(k) ==
            LET row == (k - 1) \div gridSize
                col == (k - 1) % gridSize
            IN  [region |-> RegionLabel(getCellPosition(row, col, gridSize)),
                 difference |-> compareCellContent(bufA, bufB, (col + 1) * cellWidth,
                                                   row * cellHeight, cellWidth,
                                                   cellHeight, width),
                 coordinates |-> [row |-> row, col |-> col]]
        cells == [k \in 1..(gridSize * gridSize) |-> Cell(k)]
        Significant(c) == Gt(c.difference, Rat(3, 10))
    IN  SelectSeq(cells, Significant)

\* A scan with the cell sizes rounded up.
LayoutDiffsCeil(bufA, bufB, width, height) ==
    LET cellWidth == (width + gridSize - 1) \div gridSize
        cellHeight == (height + gridSize - 1) \div gridSize
        Cell(k) ==
            LET row == (k - 1) \div gridSize
                col == (k - 1) % gridSize
            IN  [region |-> RegionLabel(getCellPosition(row, col, gridSize)),
                 difference |-> compareCellContent(bufA, bufB, col * cellWidth,
                                                   row * cellHeight, cellWidth,
                                                   cellHeight, width),
                 coordinates |-> [row |-> row, col |-> col]]
        cells == [k \in 1..(gridSize * gridSize) |-> Cell(k)]
        Significant(c) == Gt(c.difference, Rat(3, 10))
    IN  SelectSeq(cells, Significant)

\* layoutDiffs after the scan of the grid, row by row.
LayoutDiffs(bufA, bufB, width, height) ==
    LET cellWidth == width \div gridSize
        cellHeight == height \div gridSize
        Cell(k) ==
            LET row == (k - 1) \div gridSize
                col == (k - 1) % gridSize
            IN  [region |-> RegionLabel(getCellPosition(row, col, gridSize)),
                 difference |-> compareCellContent(bufA, bufB, col * cellWidth,
                                                   row * cellHeight, cellWidth,
                                                   cellHeight, width),
                 coordinates |-> [row |-> row, col |-> col]]
        cells == [k \in 1..(gridSize * gridSize) |-> Cell(k)]
        Significant(c) == Gt(c.difference, Rat(3, 10))
    IN  SelectSeq(cells, Significant)

\* analyzeLayout looking for alignment among the differences it lists.
analyzeLayoutAlignedFromMajor(bufA, bufB, width, height) ==
    LET layoutDiffs == LayoutDiffs(bufA, bufB, width, height)
        listed == SubSeq(layoutDiffs, 1, Min(5, Len(layoutDiffs)))
    IN  [gridAnalysis |-> <<Len(layoutDiffs), " regions with significant layout differences">>,
         majorDifferences |-> listed,
         alignment |-> detectAlignmentDifferences(listed)]

\* analyzeLayout counting the cells it lists instead of the cells it flagged.
analyzeLayoutCapped(bufA, bufB, width, height) ==
    LET layoutDiffs == LayoutDiffs(bufA, bufB, width, height)
        listed == SubSeq(layoutDiffs, 1, Min(5, Len(layoutDiffs)))
    IN  [gridAnalysis |-> <<Len(listed), " regions with significant layout differences">>,
         majorDifferences |-> listed,
         alignment |-> detectAlignmentDifferences(layoutDiffs)]

analyzeLayout(bufA, bufB, width, height) ==
    LET layoutDiffs == LayoutDiffs(bufA, bufB, width, height)
    IN  [gridAnalysis |-> <<Len(layoutDiffs), " regions with significant layout differences">>,
         majorDifferences |-> SubSeq(layoutDiffs, 1, Min(5, Len(layoutDiffs))),
         alignment |-> detectAlignmentDifferences(layoutDiffs)]

Layout ==
    /\ pc = "layout"
    /\ analysis' = IF options.analyzeLayout = TRUE
                   THEN [analysis EXCEPT !.layout =
                            analyzeLayout(bufferA, bufferB, minWidth, minHeight)]
                   ELSE analysis
    /\ pc' = "colors"
    /\ UNCHANGED <<request, bufferA, bufferB, minWidth, minHeight, options, i, colorDiffs, draws>>

(***************************************************************************)
(* analyzeLayout on its own, over pairs of buffers of equal size: solid    *)
(* colours, and a rectangle of one colour on a background of another.      *)
(***************************************************************************)
LayoutDims == {<<19, 40>>, <<20, 20>>, <<40, 40>>, <<45, 25>>}

ShapedBuffers(w, h) ==
    {Solid(w, h, c) : c \in Palette}
    \cup UNION {{Rect(w, h, 0, 0, w \div 2, h, c[1], c[2]),                    \* left half
                 Rect(w, h, 0, 0, w \div 2, h \div 2, c[1], c[2]),             \* top-left quarter
                 Rect(w, h, 0, h \div 3, w, (2 * h) \div 3, c[1], c[2]),       \* middle band
                 Rect(w, h, gridSize * (w \div gridSize), 0, w, h, c[1], c[2])} \* right strip
                : c \in {<<Black, White>>, <<White, Black>>}}

\* Pairs of 200x200 buffers (cells of 10x10 pixels) that differ only inside
\* the top-left quadrant: the whole quadrant, or a rectangle inside it whose
\* edge cuts through the cells of column 9 and of row 9.
QuadrantSide == 200

QuadrantPairs ==
    LET s == QuadrantSide
        q == QuadrantSide \div 2
    IN  {<<Solid(s, s, White), Rect(s, s, 0, 0, q, q, Black, White)>>,
         <<Rect(s, s, 0, 0, q, q, Gray, Black), Solid(s, s, Black)>>,
         <<Solid(s, s, Gray), Rect(s, s, 0, 0, q, q, Slate, Gray)>>,
         <<Solid(s, s, White), Rect(s, s, 0, 0, q - 7, q - 5, Black, White)>>,
         <<Solid(s, s, Black), Rect(s, s, 0, 0, q - 6, q - 3, White, Black)>>,
         <<Rect(s, s, 0, 0, q, q - 50, White, Gray), Rect(s, s, 0, 0, q, q - 50, Black, Gray)>>}

\* A white 20x20 buffer (cells of one pixel) against one with a black
\* rectangle over the cells of some of the nine regions.
AlignmentPairs ==
    {<<Solid(20, 20, White), Rect(20, 20, r[1], r[2], r[3], r[4], Black, White)>> :
        r \in {<<0, 7, 14, 14>>,     \* center-left and center-center
               <<7, 7, 20, 14>>,     \* center-center and center-right
               <<0, 7, 7, 14>>,      \* center-left
               <<7, 7, 14, 14>>,     \* center-center
               <<14, 7, 20, 14>>,    \* center-right
               <<0, 0, 20, 7>>,      \* the top regions
               <<0, 14, 20, 20>>,    \* the bottom regions
               <<0, 0, 7, 20>>}}     \* the left regions

\* A white 45x25 buffer (cells of 2x1 pixels, a strip of 5 pixels left over
\* on the right and at the bottom) against one with a black rectangle in
\* the strip, or reaching from the last cells into the strip.
RemainderPairs ==
    {<<Solid(45, 25, White), Rect(45, 25, r[1], r[2], r[3], r[4], Black, White)>> :
        r \in {<<40, 0, 45, 25>>, <<0, 20, 45, 25>>, <<40, 20, 45, 25>>,
               <<38, 0, 45, 25>>, <<0, 19, 45, 25>>}}

\* Black against white on buffers with fewer than 20 columns or rows.
SmallPairs ==
    {<<Solid(d[1], d[2], Black), Solid(d[1], d[2], White)>> :
        d \in {<<40, 19>>, <<19, 19>>, <<1, 1>>, <<20, 0>>, <<0, 0>>}}

LayoutPairs ==
    UNION {ShapedBuffers(d[1], d[2]) \X ShapedBuffers(d[1], d[2]) : d \in LayoutDims}
    \cup QuadrantPairs
    \cup AlignmentPairs
    \cup RemainderPairs
    \cup SmallPairs

InitLayout ==
    /\ pc = "layout"
    /\ \E p \in LayoutPairs :
          /\ minWidth = p[1].w
          /\ minHeight = p[1].h
          /\ bufferA = p[1]
          /\ bufferB = p[2]
    /\ options = Flags(TRUE, FALSE, FALSE, Rat(1, 10))
    /\ OnBuffers

SpecLayout == InitLayout /\ [][Layout]_vars

(***************************************************************************)
(* analyzeLayout followed by the similarity computation, as in              *)
(* analyzeVisualDifferences with the colour and typography analyses         *)
(* switched off, on buffers whose width and height are multiples of 20.     *)
(***************************************************************************)
GridDims == {<<0, 0>>, <<20, 20>>, <<40, 20>>, <<40, 40>>}

InitGrid ==
    /\ pc = "layout"
    /\ \E d \in GridDims :
          /\ minWidth = d[1]
          /\ minHeight = d[2]
          /\ bufferA \in ShapedBuffers(d[1], d[2])
          /\ bufferB \in ShapedBuffers(d[1], d[2])
    /\ options = Flags(TRUE, FALSE, FALSE, Rat(1, 10))
    /\ OnBuffers

(***************************************************************************)
(* analyzeColors.  colorDiffs is read only through its length and its      *)
(* first ten entries (slice(0, 10)), so the state keeps exactly those.     *)
(***************************************************************************)
sampleSize == 1000

\* The largest r with r * r <= s, by bisection between lo and hi.
RECURSIVE ISqrtIn(_, _, _)
ISqrtIn(s, lo, hi) ==
    IF hi <= lo + 1 THEN lo
    ELSE LET mid == (lo + hi) \div 2
         IN  IF mid * mid <= s THEN ISqrtIn(s, mid, hi) ELSE ISqrtIn(s, lo, mid)

\* The sums of squares met here are at most 3 * 255 * 255 < 1024 * 1024.
ISqrt(s) == ISqrtIn(s, 0, Min(s + 1, 1024))

\* Math.floor(Math.sqrt(s)): the rounding of the difference done downwards.
FloorSqrt(s) == ISqrt(s)

\* Math.round(Math.sqrt(s)) for an integer s >= 0: sqrt(s) >= r + 1/2 exactly
\* when s > r*r + r.
RoundSqrt(s) ==
    LET r == ISqrt(s)
    IN  IF s > r * r + r THEN r + 1 ELSE r

\* diff < 30, the comparison turned around.
SignificantColorFlipped(sumSquares) == sumSquares < 900

\* diff > 30, for diff = Math.sqrt(sumSquares).
SignificantColor(sumSquares) == sumSquares > 900

\* The values Math.floor(Math.random() * n) can take, Math.random() being in [0, 1).
\* A generator that gives the same number in every call.
RandomBelowFixed(n) == {0}

RandomBelow(n) == IF n <= 0 THEN {0} ELSE 0..(n - 1)

\* One pass of the loop body for the pixel drawn: the entries it pushes (one
\* or none).  A read outside the buffer is undefined and makes diff NaN,
\* which is not > 30.
ColorSampleAt(bufA, bufB, pixelIndex) ==
    LET colorA == <<At(bufA, pixelIndex), At(bufA, pixelIndex + 1), At(bufA, pixelIndex + 2)>>
        colorB == <<At(bufB, pixelIndex), At(bufB, pixelIndex + 1), At(bufB, pixelIndex + 2)>>
        defined == 0 <= pixelIndex /\ pixelIndex + 2 < Length(bufA)
                                   /\ pixelIndex + 2 < Length(bufB)
        sumSquares == (colorA[1] - colorB[1]) * (colorA[1] - colorB[1])
                      + (colorA[2] - colorB[2]) * (colorA[2] - colorB[2])
                      + (colorA[3] - colorB[3]) * (colorA[3] - colorB[3])
    IN  IF defined /\ SignificantColor(sumSquares)
        THEN <<[source |-> colorA, target |-> colorB, difference |-> RoundSqrt(sumSquares)]>>
        ELSE <<>>

\* A push with examples that are not cut after the tenth.
PushUncut(diffs, entry) ==
    [length |-> diffs.length + 1, first10 |-> Append(diffs.first10, entry)]

\* colorDiffs.push(entry)
Push(diffs, entry) ==
    [length |-> diffs.length + 1,
     first10 |-> IF diffs.length < 10 THEN Append(diffs.first10, entry) ELSE diffs.first10]

Major == "Major color palette differences detected"
Moderate == "Moderate color differences detected"
Minor == "Minor or no color differences detected"

\* The summary with the two limits included.
ColorSummaryInclusive(n) ==
    IF n >= 50 THEN Major ELSE IF n >= 10 THEN Moderate ELSE Minor

\* The summary with the first comparison turned around.
ColorSummaryFlipped(n) ==
    IF n < 50 THEN Major ELSE IF n > 10 THEN Moderate ELSE Minor

ColorSummary(n) ==
    IF n > 50 THEN Major ELSE IF n > 10 THEN Moderate ELSE Minor

ColorsBegin ==
    /\ pc = "colors"
    /\ IF options.analyzeColors = TRUE
       THEN /\ pc' = "sampling"
            /\ i' = 0
            /\ colorDiffs' = NoColorDiffs
            /\ draws' = {ColorSampleAt(bufferA, bufferB, r * 3) :
                            r \in RandomBelow(Length(bufferA) \div 3)}
       ELSE /\ pc' = "typography"
            /\ UNCHANGED <<i, colorDiffs, draws>>
    /\ UNCHANGED <<request, bufferA, bufferB, minWidth, minHeight, options, analysis>>

\* One pass of the loop.  The pixel index is Math.floor(Math.random() *
\* (bufferA.length / 3)) * 3; the buffers do not change during the loop, so
\* what a pass can push is the same set in every pass, and draws holds it.
ColorSample ==
    /\ pc = "sampling"
    /\ i < sampleSize
    /\ \E pushed \in draws :
          colorDiffs' = IF pushed = <<>> THEN colorDiffs
                        ELSE Push(colorDiffs, pushed[1])
    /\ i' = i + 1
    /\ UNCHANGED <<request, pc, bufferA, bufferB, minWidth, minHeight, options, analysis, draws>>

ColorsReturn ==
    /\ pc = "sampling"
    /\ i = sampleSize
    /\ analysis' = [analysis EXCEPT !.colors =
          [significantDifferences |-> colorDiffs.length,
           examples |-> colorDiffs.first10,
           summary |-> ColorSummary(colorDiffs.length)]]
    /\ pc' = "typography"
    /\ UNCHANGED <<request, bufferA, bufferB, minWidth, minHeight, options, i, colorDiffs, draws>>

(***************************************************************************)
(* analyzeColors on its own: every small buffer against itself, black and  *)
(* white buffers against each other, and a two-colour buffer against       *)
(* itself.                                                                 *)
(***************************************************************************)
ColorPairs ==
    UNION {{<<b, b>> : b \in TinyBuffers(d[1], d[2])} : d \in TinyDims}
    \cup {<<Solid(1, 1, c[1]), Solid(1, 1, c[2])>> : c \in {Black, White} \X {Black, White}}
    \cup {<<Solid(40, 40, Black), Solid(40, 40, White)>>,
          <<Solid(40, 40, White), Solid(40, 40, Black)>>,
          <<Rect(4, 4, 0, 0, 2, 4, Black, White), Rect(4, 4, 0, 0, 2, 4, Black, White)>>}

InitColors ==
    /\ pc = "colors"
    /\ \E p \in ColorPairs :
          /\ bufferA = p[1]
          /\ bufferB = p[2]
          /\ minWidth = p[1].w
          /\ minHeight = p[1].h
    /\ options = Flags(FALSE, TRUE, FALSE, Rat(1, 10))
    /\ OnBuffers

NextColors == ColorsBegin \/ ColorSample \/ ColorsReturn

SpecColors == InitColors /\ [][NextColors]_vars

(***************************************************************************)
(* analyzeColors on two buffers that agree on one pixel and differ on the  *)
(* other.                                                                  *)
(***************************************************************************)
MixedPairs ==
    {<<Pixels(2, 1, <<Black, Black>>), Pixels(2, 1, <<Black, White>>)>>}

InitColorsMixed ==
    /\ pc = "colors"
    /\ \E p \in MixedPairs :
          /\ bufferA = p[1]
          /\ bufferB = p[2]
          /\ minWidth = p[1].w
          /\ minHeight = p[1].h
    /\ options = Flags(FALSE, TRUE, FALSE, Rat(1, 10))
    /\ OnBuffers

SpecColorsMixed == InitColorsMixed /\ [][NextColors]_vars

(***************************************************************************)
(* analyzeColors on a pair whose pixels are at distance 30 and sqrt(901),   *)
(* and on a pair whose two pixels give two different entries.               *)
(***************************************************************************)
RecordedPairs ==
    {<<Pixels(2, 1, <<Black, Black>>), Pixels(2, 1, <<<<30, 0, 0>>, <<30, 1, 0>>>>)>>,
     <<Pixels(2, 1, <<Black, White>>), Pixels(2, 1, <<White, Black>>)>>}

InitColorsRecorded ==
    /\ pc = "colors"
    /\ \E p \in RecordedPairs :
          /\ bufferA = p[1]
          /\ bufferB = p[2]
          /\ minWidth = p[1].w
          /\ minHeight = p[1].h
    /\ options = Flags(FALSE, TRUE, FALSE, Rat(1, 10))
    /\ OnBuffers

SpecColorsRecorded == InitColorsRecorded /\ [][NextColors]_vars

(***************************************************************************)
(* analyzeTypography, detectTextRegions and calculateContrast.             *)
(* brightness is (r + g + b) / 3; the model keeps 3 * brightness, the sum  *)
(* r + g + b, so a contrast is the fraction (maxSum - minSum) / (3 * 255). *)
(***************************************************************************)
blockSize == 50

\* The least of init and f[k], lo <= k < hi: Math.min folded over the loop.
RECURSIVE MinOver(_, _, _, _)
MinOver(f, lo, hi, init) ==
    IF hi <= lo THEN init
    ELSE IF hi = lo + 1 THEN Min(init, f[lo])
    ELSE LET mid == (lo + hi) \div 2
         IN  Min(MinOver(f, lo, mid, init), MinOver(f, mid, hi, init))

\* The greatest of init and f[k], lo <= k < hi: Math.max folded over the loop.
RECURSIVE MaxOver(_, _, _, _)
MaxOver(f, lo, hi, init) ==
    IF hi <= lo THEN init
    ELSE IF hi = lo + 1 THEN Max(init, f[lo])
    ELSE LET mid == (lo + hi) \div 2
         IN  Max(MaxOver(f, lo, mid, init), MaxOver(f, mid, hi, init))

calculateContrast(buffer, startX, startY, bs, imageWidth) ==
    LET n == bs * bs
        PixelIndex(k) ==
            ((startY + (k \div bs)) * imageWidth + startX + (k % bs)) * 3
        InBuffer(k) == PixelIndex(k) + 2 < Length(buffer)
        Sum3(k) == At(buffer, PixelIndex(k)) + At(buffer, PixelIndex(k) + 1)
                   + At(buffer, PixelIndex(k) + 2)
        \* a pixel outside the buffer is skipped: it leaves min and max as they are
        minSum == MinOver([k \in 0..(n - 1) |-> IF InBuffer(k) THEN Sum3(k) ELSE 3 * 255],
                          0, n, 3 * 255)
        maxSum == MaxOver([k \in 0..(n - 1) |-> IF InBuffer(k) THEN Sum3(k) ELSE 0],
                          0, n, 0)
    IN  Rat(maxSum - minSum, 3 * 255)

\* Math.abs(contrastA - contrastB) with the sign slipped: contrastA + contrastB.
ContrastDiffSum(contrastA, contrastB) ==
    Rat(contrastA.n + contrastB.n, contrastA.d)

\* Math.abs(contrastA - contrastB); both contrasts are over 3 * 255.
ContrastDiff(contrastA, contrastB) ==
    Rat(Abs(contrastA.n - contrastB.n), contrastA.d)

\* The values v takes in  for (v = from; v < limit - blockSize; v += blockSize).
RECURSIVE BlockStarts(_, _)
BlockStarts(from, limit) ==
    IF from < limit - blockSize
    THEN <<from>> \o BlockStarts(from + blockSize, limit)
    ELSE <<>>

detectTextRegions(bufA, bufB, width, height) ==
    LET ys == BlockStarts(0, height)
        xs == BlockStarts(0, width)
        Block(k) ==
            LET y == ys[((k - 1) \div Len(xs)) + 1]
                x == xs[((k - 1) % Len(xs)) + 1]
                contrastA == calculateContrast(bufA, x, y, blockSize, width)
                contrastB == calculateContrast(bufB, x, y, blockSize, width)
            IN  [x |-> x, y |-> y, contrastA |-> contrastA, contrastB |-> contrastB,
                 hasSignificantDifference |->
                     Gt(ContrastDiff(contrastA, contrastB), Rat(1, 10))]
        blocks == [k \in 1..(Len(ys) * Len(xs)) |-> Block(k)]
        LikelyText(r) == Gt(r.contrastA, Rat(3, 10)) \/ Gt(r.contrastB, Rat(3, 10))
    IN  SelectSeq(blocks, LikelyText)

\* analyzeTypography counting the regions that differ.
analyzeTypographyFlaggedOnly(bufA, bufB, width, height) ==
    LET textRegions == detectTextRegions(bufA, bufB, width, height)
        Differs(r) == r.hasSignificantDifference
        differences == SelectSeq(textRegions, Differs)
    IN  [textRegionsAnalyzed |-> Len(differences),
         differences |-> differences,
         summary |-> IF Len(textRegions) > 0
                     THEN <<"Analyzed ", Len(textRegions), " text regions, ",
                            Len(differences), " show typography differences">>
                     ELSE <<"No clear text regions detected for typography analysis">>]

analyzeTypography(bufA, bufB, width, height) ==
    LET textRegions == detectTextRegions(bufA, bufB, width, height)
        Differs(r) == r.hasSignificantDifference
        differences == SelectSeq(textRegions, Differs)
    IN  [textRegionsAnalyzed |-> Len(textRegions),
         differences |-> differences,
         summary |-> IF Len(textRegions) > 0
                     THEN <<"Analyzed ", Len(textRegions), " text regions, ",
                            Len(differences), " show typography differences">>
                     ELSE <<"No clear text regions detected for typography analysis">>]

Typography ==
    /\ pc = "typography"
    /\ analysis' = IF options.analyzeTypography = TRUE
                   THEN [analysis EXCEPT !.typography =
                            analyzeTypography(bufferA, bufferB, minWidth, minHeight)]
                   ELSE analysis
    /\ pc' = "similarity"
    /\ UNCHANGED <<request, bufferA, bufferB, minWidth, minHeight, options, i, colorDiffs, draws>>

(***************************************************************************)
(* analyzeTypography on its own, over pairs of buffers of equal size with  *)
(* blocks of no, middling and full contrast.                               *)
(***************************************************************************)
TypographyDims == {<<50, 50>>, <<51, 51>>, <<100, 51>>, <<101, 51>>}

ContrastBuffers(w, h) ==
    {Solid(w, h, White), Solid(w, h, Gray)}
    \cup UNION {{Rect(w, h, 0, 0, 25, h, c[1], c[2]),       \* a bar in the first block
                 Rect(w, h, 60, 10, 90, 40, c[1], c[2])}    \* a box in the second block
                : c \in {<<Black, White>>, <<Gray, White>>, <<Slate, Gray>>}}

\* 101x51 buffers (two blocks) with a bar in the first block, the contrasts
\* next to the two limits: 76/255 and 77/255 against none, 1 against
\* 230/255 and 229/255, and a red bar on black (contrast 85/255).
LimitPairs ==
    LET Bar(cin, cout) == Rect(101, 51, 0, 0, 25, 51, cin, cout)
        Shade(v) == <<v, v, v>>
    IN  {<<Bar(Shade(179), White), Solid(101, 51, White)>>,
         <<Bar(Shade(178), White), Solid(101, 51, White)>>,
         <<Bar(Black, White), Bar(Shade(25), White)>>,
         <<Bar(Black, White), Bar(Shade(26), White)>>,
         <<Bar(<<255, 0, 0>>, Black), Solid(101, 51, Black)>>}

TypographyPairs ==
    UNION {ContrastBuffers(d[1], d[2]) \X ContrastBuffers(d[1], d[2]) : d \in TypographyDims}
    \cup LimitPairs

InitTypography ==
    /\ pc = "typography"
    /\ \E p \in TypographyPairs :
          /\ minWidth = p[1].w
          /\ minHeight = p[1].h
          /\ bufferA = p[1]
          /\ bufferB = p[2]
    /\ options = Flags(FALSE, FALSE, TRUE, Rat(1, 10))
    /\ OnBuffers

SpecTypography == InitTypography /\ [][Typography]_vars

NextGrid == Layout \/ ColorsBegin \/ Typography \/ Similarity

SpecGrid == InitGrid /\ [][NextGrid]_vars

(***************************************************************************)
(* compareScreenshots: the compare_screenshots tool.                       *)
(* args.given is the set of properties the caller set; a property that is  *)
(* not given is undefined and takes its default in the destructuring.      *)
(***************************************************************************)
ArgNames ==
    {"urlA", "urlB", "threshold", "analyzeLayout", "analyzeColors", "analyzeTypography"}

\* The thresholds the callers of the tool supply.
SuppliedThresholds == {Rat(0, 1), Rat(1, 2)}

\* Every call: each property given or not, a property not given held at a
\* fixed value that is never read.
CallArgs ==
    {a \in [given : SUBSET ArgNames, threshold : SuppliedThresholds,
            analyzeLayout : BOOLEAN, analyzeColors : BOOLEAN,
            analyzeTypography : BOOLEAN] :
        /\ "threshold" \notin a.given => a.threshold = Rat(0, 1)
        /\ "analyzeLayout" \notin a.given => a.analyzeLayout = FALSE
        /\ "analyzeColors" \notin a.given => a.analyzeColors = FALSE
        /\ "analyzeTypography" \notin a.given => a.analyzeTypography = FALSE}

\* validateArgs(args, ['urlA', 'urlB']) does not throw.
ValidArgs(a) == "urlA" \in a.given /\ "urlB" \in a.given

\* threshold = 0.1 in the destructuring, with the caller's value dropped.
ThresholdIgnored(a) == Rat(1, 10)

\* threshold = 0.1 in the destructuring.
ThresholdOf(a) == IF "threshold" \in a.given THEN a.threshold ELSE Rat(1, 10)

\* analyzeLayout = true, analyzeColors = true, analyzeTypography = true.
FlagOf(a, name) == IF name \in a.given THEN a[name] ELSE TRUE

\* The screenshots the two pages can give.
Screenshots == {Solid(2, 1, White), Solid(2, 1, Gray), Solid(1, 2, White)}

\* Screenshots sharp cannot decode: one whose header cannot be read, so that
\* metadata() rejects, and one whose header gives a size but whose pixel data
\* cannot be read, so that metadata() resolves and toBuffer() rejects.
Unreadable == [w |-> 0, h |-> 0, pat |-> [kind |-> "unreadable", c |-> Black]]
Truncated == [w |-> 2, h |-> 1, pat |-> [kind |-> "truncated", c |-> Black]]
Captured == Screenshots \cup {Unreadable, Truncated}

\* imgA.metadata() resolves.
HasMetadata(image) == image.pat.kind # "unreadable"

\* toBuffer() that resolves whatever the pixel data.
HasPixelsAlways(image) == TRUE

\* imgA.resize(...).raw().toBuffer() resolves.
HasPixels(image) == image.pat.kind \notin {"unreadable", "truncated"}

\* The two images resized to the size of the first one.
ResizeTargetOfSource(metaA, metaB) == [width |-> metaA.width, height |-> metaA.height]

\* minWidth and minHeight.
ResizeTarget(metaA, metaB) ==
    [width |-> Min(metaA.width, metaB.width), height |-> Min(metaA.height, metaB.height)]

\* sharp(image).resize(w, h).raw().toBuffer(): an image that already has the
\* size keeps its pixels, and an image of one colour keeps its colour.
ResizeRaw(image, w, h) ==
    IF image.w = w /\ image.h = h THEN image ELSE Solid(w, h, image.pat.c)

ErrorResponse == [returned |-> TRUE, isError |-> TRUE]

\* validateArgs and the destructuring of args.
Call ==
    /\ pc = "start"
    /\ IF ValidArgs(args)
       THEN /\ options' = Flags(FlagOf(args, "analyzeLayout"), FlagOf(args, "analyzeColors"),
                                FlagOf(args, "analyzeTypography"), ThresholdOf(args))
            /\ pc' = "launch"
            /\ UNCHANGED result
       ELSE /\ pc' = "failed"
            /\ result' = ErrorResponse
            /\ UNCHANGED options
    /\ UNCHANGED <<args, imageA, imageB, bufferA, bufferB, minWidth, minHeight, analysis,
                   i, colorDiffs, draws, completion, session, server>>

\* getBrowser: launch() and newContext(), each of which can reject.  The
\* call is made before the try block, so a rejection goes straight to the
\* request handler.
GetBrowser ==
    /\ pc = "launch"
    /\ \/ /\ browser' = "open"
          /\ context' = "open"
          /\ pc' = "pages"
          /\ UNCHANGED result
       \/ /\ browser' = "open"
          /\ pc' = "failed"
          /\ result' = ErrorResponse
          /\ UNCHANGED context
       \/ /\ pc' = "failed"
          /\ result' = ErrorResponse
          /\ UNCHANGED session
    /\ UNCHANGED <<args, imageA, imageB, bufferA, bufferB, minWidth, minHeight, options,
                   analysis, i, colorDiffs, draws, completion, server>>

\* A throw that leaves the function at once, as if the try block had no
\* finally clause.
ThrowPastFinally ==
    /\ pc' = "settle"
    /\ completion' = ErrorResponse

\* A throw inside the try block: control goes to the finally clause with
\* the error pending.
Throw ==
    /\ pc' = "finally"
    /\ completion' = ErrorResponse

\* An awaited call of the try block that resolves or rejects.
Await(from, to) ==
    /\ pc = from
    /\ \/ /\ pc' = to
          /\ UNCHANGED completion
       \/ Throw
    /\ UNCHANGED <<args, imageA, imageB, result, bufferA, bufferB, minWidth, minHeight,
                   options, analysis, i, colorDiffs, draws, session, server>>

\* context.newPage() twice.
NewPages == Await("pages", "goto")

\* pageA.goto(urlA), pageB.goto(urlB).
Goto == Await("goto", "spa")

\* isSPA and waitForSPAReady, or waitForReactHydration.
WaitForSPA == Await("spa", "screenshot")

\* pageA.screenshot(), pageB.screenshot().
Screenshot ==
    /\ pc = "screenshot"
    /\ \/ /\ imageA' \in Captured
          /\ imageB' \in Captured
          /\ pc' = "save"
          /\ UNCHANGED completion
       \/ /\ Throw
          /\ UNCHANGED <<imageA, imageB>>
    /\ UNCHANGED <<args, result, bufferA, bufferB, minWidth, minHeight, options, analysis,
                   i, colorDiffs, draws, session, server>>

\* pathA and pathB for timestampA = Date.now().
PathsAt(timestampA) ==
    [pathA |-> <<"/tmp/compare-source-", timestampA, ".png">>,
     pathB |-> <<"/tmp/compare-target-", timestampA + 1, ".png">>]

\* fs.writeFileSync(path, data): the file is created or replaced.
writeFileSync(fs, path, data) ==
    [p \in DOMAIN fs \cup {path} |-> IF p = path THEN data ELSE fs[p]]

\* The clock is read at most this many milliseconds after the server started.
MaxClock == 2

\* Date.now(): not before the last value read.
Clock == now..MaxClock

\* The two screenshots are written under /tmp; either write can throw.
Save ==
    /\ pc = "save"
    /\ \E timestampA \in Clock :
          /\ now' = timestampA
          /\ \/ /\ files' = writeFileSync(writeFileSync(files, PathsAt(timestampA).pathA, imageA),
                                           PathsAt(timestampA).pathB, imageB)
                /\ pc' = "evaluate"
                /\ UNCHANGED completion
             \/ /\ files' = writeFileSync(files, PathsAt(timestampA).pathA, imageA)
                /\ Throw
             \/ /\ UNCHANGED files
                /\ Throw
    /\ UNCHANGED <<args, imageA, imageB, result, bufferA, bufferB, minWidth, minHeight,
                   options, analysis, i, colorDiffs, draws, session, calls>>

\* pageA.evaluate(...), pageB.evaluate(...).
Evaluate == Await("evaluate", "metadata")

\* analyzeVisualDifferences up to the sizes the images are resized to.
\* A rejection of either metadata() rejects the Promise.all, the call and,
\* in the request handler, becomes the error response.
Metadata ==
    /\ pc = "metadata"
    /\ IF HasMetadata(imageA) /\ HasMetadata(imageB)
       THEN LET metaA == [width |-> imageA.w, height |-> imageA.h]
                metaB == [width |-> imageB.w, height |-> imageB.h]
            IN  /\ analysis' = NewAnalysis(metaA, metaB)
                /\ minWidth' = ResizeTarget(metaA, metaB).width
                /\ minHeight' = ResizeTarget(metaA, metaB).height
                /\ pc' = "resize"
                /\ UNCHANGED completion
       ELSE /\ Throw
            /\ UNCHANGED <<analysis, minWidth, minHeight>>
    /\ UNCHANGED <<args, imageA, imageB, result, bufferA, bufferB, options, i, colorDiffs,
                   draws, session, server>>

\* The two toBuffer() calls of the Promise.all run in either order.
ToBufferA ==
    /\ pc = "resize"
    /\ bufferA = NoImage
    /\ IF HasPixels(imageA)
       THEN /\ bufferA' = ResizeRaw(imageA, minWidth, minHeight)
            /\ UNCHANGED <<pc, completion>>
       ELSE /\ Throw
            /\ UNCHANGED bufferA
    /\ UNCHANGED <<args, imageA, imageB, result, bufferB, minWidth, minHeight, options,
                   analysis, i, colorDiffs, draws, session, server>>

ToBufferB ==
    /\ pc = "resize"
    /\ bufferB = NoImage
    /\ IF HasPixels(imageB)
       THEN /\ bufferB' = ResizeRaw(imageB, minWidth, minHeight)
            /\ UNCHANGED <<pc, completion>>
       ELSE /\ Throw
            /\ UNCHANGED bufferB
    /\ UNCHANGED <<args, imageA, imageB, result, bufferA, minWidth, minHeight, options,
                   analysis, i, colorDiffs, draws, session, server>>

\* An await that resumes as soon as the first buffer is there.
ResizedAfterFirst ==
    /\ pc = "resize"
    /\ bufferA # NoImage
    /\ pc' = "layout"
    /\ UNCHANGED <<request, bufferA, bufferB, minWidth, minHeight, options, analysis,
                   i, colorDiffs, draws>>

\* await Promise.all([...]) resumes when both buffers are there.
Resized ==
    /\ pc = "resize"
    /\ bufferA # NoImage
    /\ bufferB # NoImage
    /\ pc' = "layout"
    /\ UNCHANGED <<request, bufferA, bufferB, minWidth, minHeight, options, analysis,
                   i, colorDiffs, draws>>

\* (x * 100).toFixed(1) of a number that is not negative: the tenths of a
\* percent, rounded to the nearest.
PercentFixed1(x) ==
    IF x.k = "rat" THEN Rat((2000 * x.n + x.d) \div (2 * x.d), 10) ELSE x

\* A property that is there and is not the empty string.
Filled(object, name) == name \in DOMAIN object /\ object[name] # ""

\* slice(0, 3) of the examples.
FirstThree(examples) == SubSeq(examples, 1, Min(3, Len(examples)))

\* The report as its lines, each line the pieces it is put together from
\* (the pictograph that opens a heading is left out).  The blocks are the
\* ones of the function, in its order.
Heading == [results |-> "VISUAL COMPARISON RESULTS", dimensions |-> "Dimensions:",
            similarity |-> "Overall Similarity: ", layout |-> "Layout Analysis:",
            colors |-> "Color Analysis:", typography |-> "Typography Analysis:"]

DimensionsBlock(analysis_) ==
    <<<<Heading.dimensions>>,
      <<"- Source: ", analysis_.dimensions.source.width, "x",
        analysis_.dimensions.source.height>>,
      <<"- Target: ", analysis_.dimensions.target.width, "x",
        analysis_.dimensions.target.height>>,
      <<"- Match: ", IF analysis_.dimensions.match THEN "yes" ELSE "no">>,
      <<"">>>>

SimilarityBlock(analysis_) ==
    <<<<Heading.similarity, PercentFixed1(analysis_.similarity), "% ",
        IF analysis_.similar = TRUE THEN "yes" ELSE "no">>,
      <<"">>>>

LayoutBlock(analysis_) ==
    IF Filled(analysis_.layout, "gridAnalysis")
    THEN <<<<Heading.layout>>, <<"- ", analysis_.layout.gridAnalysis>>>>
         \o (IF Len(analysis_.layout.alignment) > 0
             THEN <<<<"- Alignment issues: ", analysis_.layout.alignment>>>>
             ELSE <<>>)
         \o <<<<"">>>>
    ELSE <<>>

ColorsBlock(analysis_) ==
    IF Filled(analysis_.colors, "summary")
    THEN <<<<Heading.colors>>, <<"- ", analysis_.colors.summary>>>>
         \o (IF Len(analysis_.colors.examples) > 0
             THEN <<<<"- Example differences:">>>>
                  \o [k \in 1..Len(FirstThree(analysis_.colors.examples)) |->
                         LET diff == analysis_.colors.examples[k]
                         IN  <<"  * ", diff.source, " -> ", diff.target,
                               " (diff: ", diff.difference, ")">>]
             ELSE <<>>)
         \o <<<<"">>>>
    ELSE <<>>

TypographyBlock(analysis_) ==
    IF Filled(analysis_.typography, "summary")
    THEN <<<<Heading.typography>>, <<"- ", analysis_.typography.summary>>, <<"">>>>
    ELSE <<>>

\* The report with the colour block ahead of the layout block.
formatAnalysisResultsColorsFirst(analysis_) ==
    <<<<Heading.results>>, <<"">>>>
    \o DimensionsBlock(analysis_) \o SimilarityBlock(analysis_)
    \o ColorsBlock(analysis_) \o LayoutBlock(analysis_) \o TypographyBlock(analysis_)

formatAnalysisResults(analysis_) ==
    <<<<Heading.results>>, <<"">>>>
    \o DimensionsBlock(analysis_) \o SimilarityBlock(analysis_)
    \o LayoutBlock(analysis_) \o ColorsBlock(analysis_) \o TypographyBlock(analysis_)

\* The return statement of compareScreenshots: the analysis, at the end of
\* the text the report, and the two paths.  Control goes to the finally
\* clause with the value pending.
Return ==
    /\ pc = "returned"
    /\ completion' = [returned |-> TRUE, isError |-> FALSE, analysis |-> analysis,
                      report |-> formatAnalysisResults(analysis),
                      screenshots |-> PathsAt(now)]
    /\ pc' = "finally"
    /\ UNCHANGED <<args, imageA, imageB, result, bufferA, bufferB, minWidth, minHeight,
                   options, analysis, i, colorDiffs, draws, session, server>>

\* finally: await context.close().
CloseContext ==
    /\ pc = "finally"
    /\ context' = "closed"
    /\ pc' = "closing"
    /\ UNCHANGED <<args, imageA, imageB, result, bufferA, bufferB, minWidth, minHeight,
                   options, analysis, i, colorDiffs, draws, browser, completion, server>>

\* finally: await browser.close().
CloseBrowser ==
    /\ pc = "closing"
    /\ browser' = "closed"
    /\ pc' = "settle"
    /\ UNCHANGED <<args, imageA, imageB, result, bufferA, bufferB, minWidth, minHeight,
                   options, analysis, i, colorDiffs, draws, context, completion, server>>

\* The call settles: the pending value is returned, or the pending error
\* is thrown and the request handler answers with the error response.
Settle ==
    /\ pc = "settle"
    /\ result' = completion
    /\ pc' = (IF completion.isError THEN "failed" ELSE "done")
    /\ UNCHANGED <<args, imageA, imageB, bufferA, bufferB, minWidth, minHeight, options,
                   analysis, i, colorDiffs, draws, completion, session, server>>

Init ==
    /\ Offline
    /\ args \in CallArgs
    /\ imageA = NoImage
    /\ imageB = NoImage
    /\ result = NoResult
    /\ pc = "start"
    /\ bufferA = NoImage
    /\ bufferB = NoImage
    /\ minWidth = 0
    /\ minHeight = 0
    /\ options = Flags(FALSE, FALSE, FALSE, Rat(0, 1))
    /\ analysis = Empty
    /\ i = 0
    /\ colorDiffs = NoColorDiffs
    /\ draws = {}

Next ==
    \/ Call
    \/ GetBrowser
    \/ NewPages
    \/ Goto
    \/ WaitForSPA
    \/ Screenshot
    \/ Save
    \/ Evaluate
    \/ Metadata
    \/ ToBufferA
    \/ ToBufferB
    \/ Resized
    \/ Layout
    \/ ColorsBegin
    \/ ColorSample
    \/ ColorsReturn
    \/ Typography
    \/ Similarity
    \/ Return
    \/ CloseContext
    \/ CloseBrowser
    \/ Settle

Spec == Init /\ [][Next]_vars

(***************************************************************************)
(* Claims about the similarity score.                                      *)
(***************************************************************************)
IsOne(x) == x.k = "rat" /\ x.n = x.d
InUnitRange(x) == x.k = "rat" /\ 0 <= x.n /\ x.n <= x.d

\* C1: whatever equal-length buffers, width and height the similarity
\* computation is given, the similarity it returns is a finite number
\* between 0 and 1, never NaN.
C1_SimilarityInRange ==
    pc = "returned" => InUnitRange(analysis.similarity)

\* C2: a non-empty buffer of length width*height*3 compared with itself has
\* similarity exactly 1, and similar is true for every threshold >= 0.
C2_Identity ==
    (pc = "returned" /\ bufferA = bufferB /\ Length(bufferA) > 0
        /\ Length(bufferA) = minWidth * minHeight * 3)
    => /\ IsOne(analysis.similarity)
       /\ GEq(options.threshold, Rat(0, 1)) => analysis.similar = TRUE
       /\ \A th \in Thresholds :
             GEq(th, Rat(0, 1)) => SimilarOf(analysis.similarity, th)

C2_Witness ==
    /\ pc = "returned" /\ bufferA = bufferB /\ Length(bufferA) > 0
    /\ \E k \in 0..(Length(bufferA) - 1) : At(bufferA, k) > 0
    /\ options.threshold = Rat(0, 1)
    /\ analysis.similar = TRUE

\* C3: for two buffers of length 0 (width or height 0) the similarity is 1;
\* the division is guarded and yields neither NaN nor an infinite value.
C3_EmptyIsOne ==
    (pc = "returned" /\ Length(bufferA) = 0 /\ Length(bufferB) = 0)
    => IsOne(analysis.similarity)

\* C5: for a fixed similarity value and thresholds t1 <= t2, similar under
\* t1 implies similar under t2: a larger threshold never turns similar from
\* true to false.
C5_ThresholdMonotone ==
    pc = "returned" =>
       /\ \A t2 \in Thresholds :
             (GEq(t2, options.threshold) /\ analysis.similar = TRUE)
             => SimilarOf(analysis.similarity, t2)
       /\ \A t1 \in Thresholds :
             (GEq(options.threshold, t1) /\ SimilarOf(analysis.similarity, t1))
             => analysis.similar = TRUE

C5_Witness ==
    /\ pc = "returned"
    /\ options.threshold = Rat(1, 10)
    /\ analysis.similar = FALSE
    /\ SimilarOf(analysis.similarity, Rat(1, 2))

\* C4: in every result of a comparison similar is true exactly when
\* similarity >= 1 - threshold, the threshold being the caller's value, or 0.1
\* when the caller gives none; a call that gives only urlA and urlB runs the
\* three analyses and returns an analysis carrying similarity and similar.
C4_SimilarByThreshold ==
    (pc = "done" /\ ~result.isError)
    => /\ LET threshold == IF "threshold" \in args.given THEN args.threshold
                           ELSE Rat(1, 10)
          IN  result.analysis.similar
                 = GEq(result.analysis.similarity, OneMinus(threshold))
       /\ args.given = {"urlA", "urlB"}
          => /\ "gridAnalysis" \in DOMAIN result.analysis.layout
             /\ "summary" \in DOMAIN result.analysis.colors
             /\ "summary" \in DOMAIN result.analysis.typography
             /\ result.analysis.similarity.k = "rat"
             /\ result.analysis.similar \in BOOLEAN

\* A call with only the two urls whose images are similar under 0.5 but not
\* under the default 0.1.
C4_Witness ==
    /\ pc = "done" /\ ~result.isError
    /\ args.given = {"urlA", "urlB"}
    /\ result.analysis.similar = FALSE
    /\ SimilarOf(result.analysis.similarity, Rat(1, 2))

(***************************************************************************)
(* Claims about the analyzers on two identical buffers.                    *)
(***************************************************************************)
\* C6: analyzeLayout on two identical buffers, for any width and height,
\* reports 0 regions, no major difference and an empty alignment list.
C6_LayoutIdentical ==
    (pc = "colors" /\ options.analyzeLayout = TRUE /\ bufferA = bufferB)
    => /\ analysis.layout.gridAnalysis[1] = 0
       /\ analysis.layout.majorDifferences = <<>>
       /\ analysis.layout.alignment = <<>>

\* Identical buffers that are not of one colour, with cells that hold pixels.
C6_Witness ==
    /\ pc = "colors" /\ options.analyzeLayout = TRUE /\ bufferA = bufferB
    /\ bufferA.pat.kind = "rect"
    /\ minWidth >= gridSize /\ minHeight >= gridSize
    /\ analysis.layout.gridAnalysis[1] = 0

\* C7: analyzeColors on two identical buffers returns significantDifferences
\* = 0, no example and the summary 'Minor or no color differences detected',
\* whatever pixels the 1000 draws pick.
C7_ColorsIdentical ==
    /\ (pc = "sampling" /\ bufferA = bufferB) => colorDiffs = NoColorDiffs
    /\ (pc = "typography" /\ options.analyzeColors = TRUE /\ bufferA = bufferB)
       => /\ analysis.colors.significantDifferences = 0
          /\ analysis.colors.examples = <<>>
          /\ analysis.colors.summary = Minor

\* Identical buffers of more than one colour, after the 1000 draws.
C7_Witness ==
    /\ pc = "typography" /\ options.analyzeColors = TRUE /\ bufferA = bufferB
    /\ i = sampleSize
    /\ \E p, q \in 0..(minWidth * minHeight - 1) :
          PixelColor(bufferA, p) # PixelColor(bufferA, q)
    /\ analysis.colors.significantDifferences = 0

\* C8: analyzeTypography on two identical buffers returns no entry with
\* hasSignificantDifference true, and an empty differences list, whatever the
\* content and the dimensions.
C8_TypographyIdentical ==
    (pc = "similarity" /\ options.analyzeTypography = TRUE /\ bufferA = bufferB)
    => /\ analysis.typography.differences = <<>>
       /\ analysis.typography.summary[1] = "Analyzed " => analysis.typography.summary[4] = 0

\* Identical buffers in which a block is taken for text.
C8_Witness ==
    /\ pc = "similarity" /\ options.analyzeTypography = TRUE /\ bufferA = bufferB
    /\ analysis.typography.textRegionsAnalyzed > 0
    /\ analysis.typography.differences = <<>>

(***************************************************************************)
(* Claims about an all-black image against an all-white image.             *)
(***************************************************************************)
BlackAndWhite ==
    /\ bufferA.pat.kind = "solid" /\ bufferB.pat.kind = "solid"
    /\ {bufferA.pat.c, bufferB.pat.c} = {Black, White}

\* The difference every entry recorded so far carries, and every example returned.
EveryDifferenceIs(v) ==
    /\ pc = "sampling" => \A k \in 1..Len(colorDiffs.first10) :
                              colorDiffs.first10[k].difference = v
    /\ (pc = "typography" /\ options.analyzeColors = TRUE)
       => \A k \in 1..Len(analysis.colors.examples) :
              analysis.colors.examples[k].difference = v

\* C9 as stated: for an all-black image against an all-white image of the
\* same size every ColorDifference recorded has difference 441.
C9_DifferenceIs441 == BlackAndWhite => EveryDifferenceIs(441)

\* C9 as amended: every ColorDifference recorded has difference 442, the
\* Euclidean distance 255 * sqrt(3) = 441.67... rounded to the nearest integer.
C9_DifferenceIs442 == BlackAndWhite => EveryDifferenceIs(442)

C9_Witness ==
    /\ BlackAndWhite
    /\ pc = "typography"
    /\ Len(analysis.colors.examples) = 10
    /\ analysis.colors.examples[1] = [source |-> Black, target |-> White, difference |-> 442]

\* C10: for an all-black 40x40 image against an all-white 40x40 image every
\* one of the 1000 samples is significant, so the summary is 'Major color
\* palette differences detected' whichever pixels are drawn.
C10_BlackWhiteMajor ==
    (BlackAndWhite /\ minWidth = 40 /\ minHeight = 40)
    => /\ pc = "sampling" => colorDiffs.length = i
       /\ (pc = "typography" /\ options.analyzeColors = TRUE)
          => /\ analysis.colors.significantDifferences = sampleSize
             /\ analysis.colors.summary = Major

C10_Witness ==
    /\ BlackAndWhite /\ minWidth = 40 /\ minHeight = 40
    /\ bufferA.pat.c = Black
    /\ pc = "typography"
    /\ analysis.colors.summary = Major


(***************************************************************************)
(* The grid of analyzeLayout, restated cell by cell from the pixels.       *)
(***************************************************************************)
\* Cell (row, col) of the grid: the sum of the channel differences of its
\* pixels, divided by 255 times the number of channel values, exceeds 0.3.
CellFlagged(bufA, bufB, row, col) ==
    LET cw == bufA.w \div gridSize
        ch == bufA.h \div gridSize
        Pixel(k) == (row * ch + (k \div cw)) * bufA.w + col * cw + (k % cw)
        Distance(k) ==
            LET a == PixelColor(bufA, Pixel(k))
                b == PixelColor(bufB, Pixel(k))
            IN  Abs(a[1] - b[1]) + Abs(a[2] - b[2]) + Abs(a[3] - b[3])
        total == SumOver([k \in 0..(cw * ch - 1) |-> Distance(k)], 0, cw * ch)
    IN  cw * ch > 0 /\ 10 * total > 3 * (cw * ch * 3 * 255)

\* The flagged cells in row-major order.
FlaggedCells(bufA, bufB) ==
    LET cells == [k \in 1..(gridSize * gridSize) |->
                     [row |-> (k - 1) \div gridSize, col |-> (k - 1) % gridSize]]
        Flagged(c) == CellFlagged(bufA, bufB, c.row, c.col)
    IN  SelectSeq(cells, Flagged)

\* Two 200x200 buffers whose pixels outside the top-left quadrant are equal.
DifferOnlyInQuadrant(bufA, bufB) ==
    /\ bufA.w = QuadrantSide /\ bufA.h = QuadrantSide
    /\ bufB.w = QuadrantSide /\ bufB.h = QuadrantSide
    /\ \A p \in 0..(QuadrantSide * QuadrantSide - 1) :
          (p % QuadrantSide >= QuadrantSide \div 2 \/ p \div QuadrantSide >= QuadrantSide \div 2)
             => PixelColor(bufA, p) = PixelColor(bufB, p)

InQuadrant(c) == c.row < gridSize \div 2 /\ c.col < gridSize \div 2

\* C11: when two 200x200 images differ only inside the top-left quadrant,
\* every cell analyzeLayout flags (the listed ones and the counted ones) has
\* row < 10 and col < 10, and the number in gridAnalysis is the number of
\* cells of the quadrant whose normalised difference exceeds 0.3.
C11_QuadrantOnly ==
    (pc = "colors" /\ DifferOnlyInQuadrant(bufferA, bufferB)) =>
        /\ \A d \in Range(LayoutDiffs(bufferA, bufferB, minWidth, minHeight)) :
              InQuadrant(d.coordinates)
        /\ \A d \in Range(analysis.layout.majorDifferences) : InQuadrant(d.coordinates)
        /\ analysis.layout.gridAnalysis[1] =
              Cardinality({c \in (0..(gridSize \div 2 - 1)) \X (0..(gridSize \div 2 - 1)) :
                              CellFlagged(bufferA, bufferB, c[1], c[2])})

\* The difference ends inside the cells of column 9: some cells of the
\* quadrant are flagged and some are not.
C11_Witness ==
    /\ pc = "colors"
    /\ DifferOnlyInQuadrant(bufferA, bufferB)
    /\ analysis.layout.gridAnalysis[1] > 0
    /\ analysis.layout.gridAnalysis[1] < (gridSize \div 2) * (gridSize \div 2)

\* C19: analyzeLayout flags exactly the cells whose normalised difference
\* exceeds 0.3; gridAnalysis carries their number N, not capped, and
\* majorDifferences is the first min(5, N) of them in row-major order.
C19_FirstFiveOfFlagged ==
    pc = "colors" =>
        LET flagged == FlaggedCells(bufferA, bufferB)
            major == analysis.layout.majorDifferences
        IN  /\ analysis.layout.gridAnalysis[1] = Len(flagged)
            /\ Len(major) = Min(5, Len(flagged))
            /\ \A k \in 1..Len(major) :
                  /\ major[k].coordinates = flagged[k]
                  /\ Gt(major[k].difference, Rat(3, 10))

\* More than five cells are flagged.
C19_Witness ==
    /\ pc = "colors"
    /\ analysis.layout.gridAnalysis[1] > 5
    /\ Len(analysis.layout.majorDifferences) = 5
    /\ analysis.layout.majorDifferences[5].coordinates = FlaggedCells(bufferA, bufferB)[5]

\* The label of the claim: rows 0..6 top, 7..13 center, 14..19 bottom, and
\* columns 0..6 left, 7..13 center, 14..19 right.
LabelOfCell(row, col) ==
    LET band == IF row \in 0..6 THEN 1 ELSE IF row \in 14..19 THEN 3 ELSE 2
        side == IF col \in 0..6 THEN 1 ELSE IF col \in 14..19 THEN 3 ELSE 2
    IN  <<<<"top-left", "top-center", "top-right">>,
          <<"center-left", "center-center", "center-right">>,
          <<"bottom-left", "bottom-center", "bottom-right">>>>[band][side]

\* The labels of all flagged cells.
FlaggedLabels(bufA, bufB) ==
    {LabelOfCell(c.row, c.col) : c \in Range(FlaggedCells(bufA, bufB))}

\* C21: the alignment list holds the left-aligned hypothesis exactly when
\* the flagged regions include center-left and center-center, and the
\* right-aligned one exactly when they include center-right and
\* center-center; nothing else puts an entry into the list, and left comes
\* before right.
C21_AlignmentHypotheses ==
    pc = "colors" =>
        LET labels == FlaggedLabels(bufferA, bufferB)
        IN  analysis.layout.alignment =
                (IF {"center-left", "center-center"} \subseteq labels
                 THEN <<"Content appears centered in source but left-aligned in target">>
                 ELSE <<>>)
                \o (IF {"center-right", "center-center"} \subseteq labels
                    THEN <<"Content appears centered in source but right-aligned in target">>
                    ELSE <<>>)

\* Only the right-aligned hypothesis, from center-center and center-right.
C21_Witness ==
    /\ pc = "colors"
    /\ FlaggedLabels(bufferA, bufferB) = {"center-center", "center-right"}
    /\ analysis.layout.alignment = <<AlignedRight>>

\* C26: the hypotheses come from all flagged cells: when the flagged cells
\* include the two regions of a hypothesis, the hypothesis is in the list
\* although neither region is among the five listed differences.
C26_AlignmentFromAllFlagged ==
    pc = "colors" =>
        LET labels == FlaggedLabels(bufferA, bufferB)
            listed == {d.region : d \in Range(analysis.layout.majorDifferences)}
            issues == Range(analysis.layout.alignment)
        IN  /\ ({"center-left", "center-center"} \subseteq labels
                    /\ listed \cap {"center-left", "center-center"} = {})
                => AlignedLeft \in issues
            /\ ({"center-right", "center-center"} \subseteq labels
                    /\ listed \cap {"center-right", "center-center"} = {})
                => AlignedRight \in issues

\* The five listed differences are all in the top row of the grid, and the
\* left-aligned hypothesis is there.
C26_Witness ==
    /\ pc = "colors"
    /\ Len(analysis.layout.majorDifferences) = 5
    /\ \A d \in Range(analysis.layout.majorDifferences) : d.coordinates.row = 0
    /\ AlignedLeft \in Range(analysis.layout.alignment)

\* The pixel indexes read for cell k (1..400) of the grid over a buffer.
PixelIndexesOfCell(buf, k) ==
    LET cw == buf.w \div gridSize
        ch == buf.h \div gridSize
    IN  CellPixelIndexes(((k - 1) % gridSize) * cw, ((k - 1) \div gridSize) * ch,
                         cw, ch, buf.w, Length(buf))

\* The two buffers agree on every pixel with x < 20 * floor(width / 20) and
\* y < 20 * floor(height / 20).
DifferOnlyInRemainder(bufA, bufB) ==
    \A p \in 0..(bufA.w * bufA.h - 1) :
        (p % bufA.w < gridSize * (bufA.w \div gridSize)
            /\ p \div bufA.w < gridSize * (bufA.h \div gridSize))
        => PixelColor(bufA, p) = PixelColor(bufB, p)

\* C25: the 400 cells are pairwise disjoint and cover exactly the pixels
\* with x < 20 * floor(width / 20) and y < 20 * floor(height / 20), and two
\* images that differ only in the other pixels give no LayoutDifference.
C25_CellsPartitionGrid ==
    pc = "colors" =>
        LET cells == 1..(gridSize * gridSize)
            covered == UNION {PixelIndexesOfCell(bufferA, k) : k \in cells}
        IN  /\ covered = {(y * minWidth + x) * 3 :
                              x \in 0..(gridSize * (minWidth \div gridSize) - 1),
                              y \in 0..(gridSize * (minHeight \div gridSize) - 1)}
            /\ SumOver([k \in cells |-> Cardinality(PixelIndexesOfCell(bufferA, k))],
                       1, gridSize * gridSize + 1) = Cardinality(covered)
            /\ DifferOnlyInRemainder(bufferA, bufferB) =>
                  /\ analysis.layout.gridAnalysis[1] = 0
                  /\ analysis.layout.majorDifferences = <<>>

\* A black strip below the last row of cells, and nothing flagged.
C25_Witness ==
    /\ pc = "colors"
    /\ bufferA = Solid(45, 25, White)
    /\ bufferB = Rect(45, 25, 0, 20, 45, 25, Black, White)
    /\ DifferOnlyInRemainder(bufferA, bufferB)
    /\ analysis.layout.gridAnalysis[1] = 0

\* C27: with a width below 20 or a height below 20 every cell is empty, and
\* analyzeLayout reports 0 regions, no listed difference and no alignment
\* hypothesis whatever the two images.
C27_SmallImagesNothingFlagged ==
    (pc = "colors" /\ (minWidth < 20 \/ minHeight < 20)) =>
        /\ \A k \in 1..(gridSize * gridSize) : PixelIndexesOfCell(bufferA, k) = {}
        /\ analysis.layout.gridAnalysis[1] = 0
        /\ analysis.layout.majorDifferences = <<>>
        /\ analysis.layout.alignment = <<>>

\* Black against white, 40 pixels wide and 19 high.
C27_Witness ==
    /\ pc = "colors"
    /\ minWidth = 40 /\ minHeight = 19
    /\ bufferA = Solid(40, 19, Black)
    /\ bufferB = Solid(40, 19, White)
    /\ analysis.layout.gridAnalysis[1] = 0

\* C20: every cell (row, col) of the 20x20 grid gets the label
\* '<vertical>-<horizontal>' with top for rows 0..6, center for rows 7..13,
\* bottom for rows 14..19, and left, center, right for the same ranges of
\* col; the labels of the listed differences are the labels of their cells.
C20_RegionLabels ==
    /\ \A row \in 0..(gridSize - 1), col \in 0..(gridSize - 1) :
          RegionLabel(getCellPosition(row, col, gridSize)) = LabelOfCell(row, col)
    /\ pc = "colors" =>
          \A d \in Range(analysis.layout.majorDifferences) :
              d.region = LabelOfCell(d.coordinates.row, d.coordinates.col)

\* A flagged cell of row 6, the last row of the top band.
C20_Witness ==
    /\ pc = "colors"
    /\ \E d \in Range(analysis.layout.majorDifferences) :
          d.coordinates.row = 6 /\ d.region = "top-left"

(***************************************************************************)
(* Claims about the preparation of the two buffers.                        *)
(***************************************************************************)
AnalyzerStages == {"layout", "colors", "sampling", "typography", "similarity"}

\* C12: the comparison runs on two buffers whose width and height are the
\* minima of the widths and of the heights of the two images, and the two
\* buffers have the same length in bytes.
C12_BuffersOfMinSize ==
    pc \in AnalyzerStages \cup {"returned", "done"} =>
        /\ bufferA.w = (IF imageA.w < imageB.w THEN imageA.w ELSE imageB.w)
        /\ bufferA.h = (IF imageA.h < imageB.h THEN imageA.h ELSE imageB.h)
        /\ bufferB.w = bufferA.w
        /\ bufferB.h = bufferA.h
        /\ Length(bufferA) = Length(bufferB)
        /\ Length(bufferA) = bufferA.w * bufferA.h * 3

\* A 2x1 and a 1x2 screenshot are compared on 1x1 buffers.
C12_Witness ==
    /\ pc = "similarity"
    /\ imageA.w > imageB.w
    /\ imageA.h < imageB.h
    /\ bufferA.w = imageB.w
    /\ bufferA.h = imageA.h

Undecodable(image) == image \in {Unreadable, Truncated}

\* C13: when either image cannot be decoded no analyzer runs, no analysis is
\* returned, the call cannot stop anywhere but in its failure, and the tool
\* call is answered with the error response.
C13_DecodeFailureAborts ==
    (Undecodable(imageA) \/ Undecodable(imageB)) =>
        /\ pc \in {"save", "evaluate", "metadata", "resize", "finally", "closing", "settle",
                  "failed"}
        /\ pc # "failed" => (result = NoResult /\ ENABLED Next)
        /\ pc \in {"finally", "closing", "settle"} => completion = ErrorResponse
        /\ pc = "failed" => result = ErrorResponse

\* The first buffer was read before the second image failed to decode.
C13_Witness ==
    /\ pc = "failed"
    /\ imageA \in Screenshots
    /\ imageB = Truncated
    /\ bufferA # NoImage
    /\ analysis # Empty
    /\ result = ErrorResponse

\* C14: images of different sizes do not make the comparison fail (no step
\* on two decodable images ends in the failure), and dimensions reports the
\* sizes before the resize, with match true exactly when both the widths
\* and the heights are equal.
C14_SizesReportedNotRejected ==
    /\ [](pc \in AnalyzerStages \cup {"resize", "returned", "done"} =>
             analysis.dimensions =
                 [source |-> [width |-> imageA.w, height |-> imageA.h],
                  target |-> [width |-> imageB.w, height |-> imageB.h],
                  match |-> (imageA.w = imageB.w /\ imageA.h = imageB.h)])
    /\ [](pc = "done" => result.analysis.dimensions = analysis.dimensions)
    /\ [][(pc \in {"metadata", "resize"} /\ imageA \in Screenshots /\ imageB \in Screenshots)
              => pc' \in {"resize", "layout"}]_vars

\* A comparison of a 2x1 with a 1x2 screenshot that returned its analysis.
C14_Witness ==
    /\ pc = "done"
    /\ imageA.w # imageB.w
    /\ imageA.h # imageB.h
    /\ result.isError = FALSE
    /\ result.analysis.dimensions.match = FALSE
    /\ result.analysis.dimensions.source.width = imageA.w

\* Both buffers are there, with the size the analyzers are given.
Prepared ==
    /\ bufferA # NoImage
    /\ bufferB # NoImage
    /\ bufferA.w = minWidth /\ bufferA.h = minHeight
    /\ bufferB.w = minWidth /\ bufferB.h = minHeight

\* C16: the metadata, the resize and the raw extraction of both buffers are
\* complete before an analyzer (layout, colors, typography, similarity)
\* starts: an analyzer runs only on prepared buffers, which it leaves as
\* they are, and before that no analysis has been written.
C16_PreparedBeforeAnalyzers ==
    /\ [](pc \in AnalyzerStages => Prepared)
    /\ [](pc \in {"metadata", "resize"} /\ analysis # Empty =>
             /\ analysis.layout = Empty
             /\ analysis.colors = Empty
             /\ analysis.typography = Empty)
    /\ [][(pc \in AnalyzerStages) =>
             (UNCHANGED <<bufferA, bufferB, minWidth, minHeight, imageA, imageB>>)]_vars

\* The layout analyzer is about to start on buffers that had to be resized.
C16_Witness ==
    /\ pc = "layout"
    /\ options.analyzeLayout = TRUE
    /\ imageA.w # imageB.w
    /\ Prepared

(***************************************************************************)
(* Claims about the report.                                                *)
(***************************************************************************)
\* The headings of the sections of a report, in the order of its lines.
SectionsOf(report) ==
    LET titles == {Heading.dimensions, Heading.similarity, Heading.layout,
                   Heading.colors, Heading.typography}
        first == [k \in 1..Len(report) |-> report[k][1]]
        IsTitle(s) == s \in titles
    IN  SelectSeq(first, IsTitle)

\* C15: the report lists dimensions, overall similarity, layout, colors and
\* typography in this order; dimensions and similarity are always there, and
\* each of layout, colors and typography is there exactly when that analysis
\* was requested.
C15_ReportSections ==
    (pc = "done" /\ result.isError = FALSE) =>
        SectionsOf(result.report) =
            <<Heading.dimensions, Heading.similarity>>
            \o (IF FlagOf(args, "analyzeLayout") = TRUE THEN <<Heading.layout>> ELSE <<>>)
            \o (IF FlagOf(args, "analyzeColors") = TRUE THEN <<Heading.colors>> ELSE <<>>)
            \o (IF FlagOf(args, "analyzeTypography") = TRUE
                THEN <<Heading.typography>> ELSE <<>>)

\* Colors switched off, layout by default and typography by request: the
\* report has the layout and typography sections and no colour section.
C15_Witness ==
    /\ pc = "done"
    /\ "analyzeLayout" \notin args.given
    /\ "analyzeColors" \in args.given /\ args.analyzeColors = FALSE
    /\ "analyzeTypography" \in args.given /\ args.analyzeTypography = TRUE
    /\ SectionsOf(result.report) =
          <<Heading.dimensions, Heading.similarity, Heading.layout, Heading.typography>>

(***************************************************************************)
(* Claims about the sampling of analyzeColors and the blocks of            *)
(* detectTextRegions.                                                      *)
(***************************************************************************)
\* C17: analyzeColors is not deterministic: on two buffers that agree on one
\* pixel and differ on another, every pass of the loop can record a
\* difference and can record none, so two runs on the same buffers can end
\* with different numbers of significant differences.
C17_EveryPassCanGoBothWays ==
    (pc = "sampling" /\ i < sampleSize) =>
        /\ ENABLED (ColorSample /\ colorDiffs'.length = colorDiffs.length)
        /\ ENABLED (ColorSample /\ colorDiffs'.length = colorDiffs.length + 1)

\* A run that ends with 7 differences and 'Minor', on buffers on which other
\* runs end with more than 50 and 'Major'.
C17_Witness ==
    /\ pc = "typography"
    /\ <<bufferA, bufferB>> \in MixedPairs
    /\ analysis.colors.significantDifferences = 7
    /\ analysis.colors.summary = Minor

\* C22: the summary depends on the number n of significant differences
\* only: Major when n > 50, Moderate when 10 < n <= 50, Minor when n <= 10.
C22_SummaryByCount ==
    pc = "typography" =>
        LET n == analysis.colors.significantDifferences
            summary == analysis.colors.summary
        IN  /\ n > 50 => summary = "Major color palette differences detected"
            /\ (10 < n /\ n <= 50) => summary = "Moderate color differences detected"
            /\ n <= 10 => summary = "Minor or no color differences detected"

\* 50 significant differences are still Moderate.
C22_Witness ==
    /\ pc = "typography"
    /\ analysis.colors.significantDifferences = 50
    /\ analysis.colors.summary = Moderate

\* The square of the distance of the two colours of pixel p, and the
\* integer nearest to the distance.
SquaredDistance(bufA, bufB, p) ==
    LET a == PixelColor(bufA, p)
        b == PixelColor(bufB, p)
    IN  (a[1] - b[1]) * (a[1] - b[1]) + (a[2] - b[2]) * (a[2] - b[2])
        + (a[3] - b[3]) * (a[3] - b[3])

RECURSIVE NearestIn(_, _, _)
NearestIn(squared, lo, hi) ==
    IF lo = hi THEN lo
    ELSE LET mid == (lo + hi) \div 2
         IN  IF 4 * squared < (2 * mid + 1) * (2 * mid + 1)
             THEN NearestIn(squared, lo, mid)
             ELSE NearestIn(squared, mid + 1, hi)

\* The least d with squared < (d + 1/2)^2.
Nearest(squared) == NearestIn(squared, 0, 442)

\* The entries a pass can record: one for each pixel at a distance above 30.
Recordable(bufA, bufB) ==
    {[source |-> <<PixelColor(bufA, p)[1], PixelColor(bufA, p)[2], PixelColor(bufA, p)[3]>>,
      target |-> <<PixelColor(bufB, p)[1], PixelColor(bufB, p)[2], PixelColor(bufB, p)[3]>>,
      difference |-> Nearest(SquaredDistance(bufA, bufB, p))] :
        p \in {q \in 0..(bufA.w * bufA.h - 1) : SquaredDistance(bufA, bufB, q) > 900}}

\* What analyzeColors records, with a lower limit for the difference of an
\* example: entries come only from pixels at a distance above 30, each pass
\* adds one entry or none, the first ten entries are kept in the order of
\* the passes, and the result carries the count and these examples.
SamplingRecorded(least) ==
    pc = "sampling" =>
        /\ colorDiffs.length \in 0..i
        /\ Len(colorDiffs.first10) = Min(10, colorDiffs.length)
        /\ \A e \in Range(colorDiffs.first10) : e.difference >= least

ResultRecorded(least) ==
    pc = "typography" =>
        /\ analysis.colors.significantDifferences = colorDiffs.length
        /\ analysis.colors.significantDifferences \in 0..1000
        /\ analysis.colors.examples = colorDiffs.first10
        /\ Len(analysis.colors.examples) = Min(10, analysis.colors.significantDifferences)
        /\ \A e \in Range(analysis.colors.examples) : e.difference >= least

PassRecorded ==
    (pc = "sampling" /\ pc' = "sampling") =>
        \/ /\ colorDiffs' = colorDiffs
           /\ \E p \in 0..(bufferA.w * bufferA.h - 1) :
                 SquaredDistance(bufferA, bufferB, p) <= 900
        \/ \E e \in Recordable(bufferA, bufferB) :
              /\ colorDiffs'.length = colorDiffs.length + 1
              /\ colorDiffs'.first10 =
                    IF colorDiffs.length < 10 THEN Append(colorDiffs.first10, e)
                    ELSE colorDiffs.first10

\* C23 as stated: entries are recorded only for samples at a distance
\* strictly above 30, significantDifferences counts them all, examples holds
\* the first min(10, significantDifferences) of them in sampling order, and
\* every example has difference > 30.
C23_ExamplesAbove30 ==
    [](SamplingRecorded(31)) /\ [](ResultRecorded(31)) /\ [][PassRecorded]_vars

\* C23 amended: the same, with every example's difference >= 30 (the
\* distance, which is above 30, rounded to the nearest integer).
C23_ExamplesAtLeast30 ==
    [](SamplingRecorded(30)) /\ [](ResultRecorded(30)) /\ [][PassRecorded]_vars

\* Ten examples out of more differences, the first two of them different
\* entries.
C23_Witness ==
    /\ pc = "typography"
    /\ analysis.colors.significantDifferences > 10
    /\ Len(analysis.colors.examples) = 10
    /\ analysis.colors.examples[1] # analysis.colors.examples[2]

\* The origins of the blocks of 50x50 pixels that fit into the image.
FullBlockOrigins(width, height) ==
    {o \in (0..width) \X (0..height) :
        /\ o[1] % 50 = 0 /\ o[2] % 50 = 0
        /\ o[1] + 50 <= width /\ o[2] + 50 <= height}

\* C18: every block origin (x, y) with x and y multiples of 50, x + 50 <=
\* width and y + 50 <= height is scanned by detectTextRegions, so that every
\* such block whose contrast exceeds 0.3 in either image is among the text
\* regions.
C18_EveryFullBlockScanned ==
    pc = "similarity" =>
        /\ \A o \in FullBlockOrigins(minWidth, minHeight) :
              /\ o[1] \in Range(BlockStarts(0, minWidth))
              /\ o[2] \in Range(BlockStarts(0, minHeight))
        /\ analysis.typography.textRegionsAnalyzed =
              Cardinality({o \in FullBlockOrigins(minWidth, minHeight) :
                  \/ Gt(calculateContrast(bufferA, o[1], o[2], 50, minWidth), Rat(3, 10))
                  \/ Gt(calculateContrast(bufferB, o[1], o[2], 50, minWidth), Rat(3, 10))})

(***************************************************************************)
(* Claims relating the similarity to the cells of the grid.                *)
(***************************************************************************)
\* Two numbers are equal (fractions over the same denominator are compared
\* by their numerators).
SameNumber(x, y) ==
    /\ x.k = "rat" /\ y.k = "rat"
    /\ IF x.d = y.d THEN x.n = y.n ELSE x.n * y.d = y.n * x.d

\* The sums of the 400 cells, and the mean of the 400 values returned by
\* compareCellContent (which all have the same denominator).
CellsOfGrid(bufA, bufB, width, height) ==
    LET cw == width \div gridSize
        ch == height \div gridSize
        n == gridSize * gridSize
        Sums(k) == CellSums(bufA, bufB, ((k - 1) % gridSize) * cw,
                            ((k - 1) \div gridSize) * ch, cw, ch, width, 0)
        Difference(k) == compareCellContent(bufA, bufB, ((k - 1) % gridSize) * cw,
                                            ((k - 1) \div gridSize) * ch, cw, ch, width)
    IN  [total |-> SumOver([k \in 1..n |-> Sums(k).totalDiff], 1, n + 1),
         mean |-> Rat(SumOver([k \in 1..n |-> Difference(k).n], 1, n + 1),
                      n * Difference(1).d)]

\* C28: when width and height are multiples of 20 and the buffers hold
\* width*height*3 bytes, the sum of the absolute byte differences of the
\* whole image is the sum of the sums of the 400 cells, the similarity is 1
\* minus the mean of the 400 cell differences, and a flagged cell implies a
\* similarity below 1.
C28_SimilarityIsMeanOfCells ==
    (/\ pc = "returned"
     /\ minWidth % 20 = 0 /\ minHeight % 20 = 0
     /\ Length(bufferA) = minWidth * minHeight * 3
     /\ Length(bufferB) = minWidth * minHeight * 3) =>
        LET cells == CellsOfGrid(bufferA, bufferB, minWidth, minHeight)
        IN  /\ TotalDiff(bufferA, bufferB) = cells.total
            /\ SameNumber(analysis.similarity, OneMinus(cells.mean))
            /\ analysis.layout.gridAnalysis[1] > 0 =>
                  /\ analysis.similarity.k = "rat"
                  /\ analysis.similarity.n < analysis.similarity.d

(***************************************************************************)
(* Claims about the text regions.                                          *)
(***************************************************************************)
\* The largest minus the smallest of the sums r + g + b over the block of
\* 50x50 pixels at (x, y): 3 * 255 times the contrast of the block.
BrightnessSpan(buf, x, y) ==
    LET sums == {PixelColor(buf, yy * buf.w + xx)[1] + PixelColor(buf, yy * buf.w + xx)[2]
                 + PixelColor(buf, yy * buf.w + xx)[3] :
                     xx \in x..(x + 49), yy \in y..(y + 49)}
        most == CHOOSE m \in sums : \A s \in sums : s <= m
        least == CHOOSE m \in sums : \A s \in sums : m <= s
    IN  most - least

\* The scanned blocks in the order of the scan, with what the claim says of
\* each: whether it is a text region and whether it differs significantly.
ScannedBlocks(bufA, bufB) ==
    LET xs == BlockStarts(0, bufA.w)
        ys == BlockStarts(0, bufA.h)
    IN  [k \in 1..(Len(xs) * Len(ys)) |->
            LET x == xs[((k - 1) % Len(xs)) + 1]
                y == ys[((k - 1) \div Len(xs)) + 1]
                a == BrightnessSpan(bufA, x, y)
                b == BrightnessSpan(bufB, x, y)
            IN  [x |-> x, y |-> y, a |-> a, b |-> b,
                 text |-> (10 * a > 3 * 765 \/ 10 * b > 3 * 765),
                 differs |-> 10 * Abs(a - b) > 765]]

\* C24: a scanned block gives a TextRegion exactly when contrastA > 0.3 or
\* contrastB > 0.3, with hasSignificantDifference exactly when the two
\* contrasts differ by more than 0.1, the contrast being (max - min) / 255
\* of the mean of r, g, b; textRegionsAnalyzed is the number of text
\* regions and differences holds exactly those that differ significantly.
C24_TextRegions ==
    pc = "similarity" =>
        LET blocks == ScannedBlocks(bufferA, bufferB)
            IsText(r) == r.text
            IsFlagged(r) == r.text /\ r.differs
            flagged == SelectSeq(blocks, IsFlagged)
            differences == analysis.typography.differences
        IN  /\ analysis.typography.textRegionsAnalyzed = Len(SelectSeq(blocks, IsText))
            /\ Len(differences) = Len(flagged)
            /\ \A k \in 1..Len(differences) :
                  /\ differences[k].x = flagged[k].x
                  /\ differences[k].y = flagged[k].y
                  /\ differences[k].hasSignificantDifference = TRUE
                  /\ SameNumber(differences[k].contrastA, Rat(flagged[k].a, 765))
                  /\ SameNumber(differences[k].contrastB, Rat(flagged[k].b, 765))

\* Two bars of contrast 1 and 230/255: a text region that does not differ
\* significantly.
C24_Witness ==
    /\ pc = "similarity"
    /\ bufferA # bufferB
    /\ analysis.typography.textRegionsAnalyzed = 1
    /\ analysis.typography.differences = <<>>

(***************************************************************************)
(* Claims about the browser of a comparison.                               *)
(***************************************************************************)
(***************************************************************************)
(* Several compare_screenshots requests at once.  The request handler is   *)
(* async and every request runs its own compareScreenshots; a request      *)
(* gives way to the others at each await, and the lines from Date.now() to *)
(* the second writeFileSync have no await between them.                    *)
(***************************************************************************)
\* The requests in progress are at most this many.
MaxRequests == 2

Requests == 1..MaxRequests

\* What the pages of the requests show.
Shots == {Solid(2, 1, White), Solid(2, 1, Gray)}

NoPaths == [pathA |-> <<>>, pathB |-> <<>>]

InitConcurrent ==
    /\ pc = "serving"
    /\ args = NoArgs
    /\ imageA = NoImage
    /\ imageB = NoImage
    /\ result = NoResult
    /\ bufferA = NoImage
    /\ bufferB = NoImage
    /\ minWidth = 0
    /\ minHeight = 0
    /\ options = Flags(TRUE, TRUE, TRUE, Rat(1, 10))
    /\ analysis = Empty
    /\ i = 0
    /\ colorDiffs = NoColorDiffs
    /\ draws = {}
    /\ browser = "none"
    /\ context = "none"
    /\ completion = NoResult
    /\ now = 0
    /\ files = NoFiles
    /\ calls = [r \in Requests |->
                   [pc |-> "screenshot", screenshotA |-> NoImage, screenshotB |-> NoImage,
                    screenshots |-> NoPaths]]

\* Request r takes its two screenshots, or fails before it has.
ScreenshotOf(r) ==
    /\ calls[r].pc = "screenshot"
    /\ \/ \E a \in Shots, b \in Shots :
             calls' = [calls EXCEPT ![r].pc = "save", ![r].screenshotA = a,
                                    ![r].screenshotB = b]
       \/ calls' = [calls EXCEPT ![r].pc = "failed"]
    /\ UNCHANGED <<now, files>>

\* Request r reads the clock and writes its two files.
SaveOf(r) ==
    /\ calls[r].pc = "save"
    /\ \E timestampA \in Clock :
          /\ now' = timestampA
          /\ \/ /\ files' = writeFileSync(writeFileSync(files, PathsAt(timestampA).pathA,
                                                         calls[r].screenshotA),
                                           PathsAt(timestampA).pathB, calls[r].screenshotB)
                /\ calls' = [calls EXCEPT ![r].pc = "analyze",
                                          ![r].screenshots = PathsAt(timestampA)]
             \/ /\ files' = writeFileSync(files, PathsAt(timestampA).pathA,
                                           calls[r].screenshotA)
                /\ calls' = [calls EXCEPT ![r].pc = "failed"]
             \/ /\ UNCHANGED files
                /\ calls' = [calls EXCEPT ![r].pc = "failed"]

\* Request r evaluates its pages, analyzes its two screenshots (from
\* memory) and returns, with screenshots: { pathA, pathB }; or fails.
ReturnOf(r) ==
    /\ calls[r].pc = "analyze"
    /\ \/ calls' = [calls EXCEPT ![r].pc = "done"]
       \/ calls' = [calls EXCEPT ![r].pc = "failed"]
    /\ UNCHANGED <<now, files>>

NextConcurrent ==
    /\ \E r \in Requests : ScreenshotOf(r) \/ SaveOf(r) \/ ReturnOf(r)
    /\ UNCHANGED <<args, imageA, imageB, result, pc, bufferA, bufferB, minWidth, minHeight,
                   options, analysis, i, colorDiffs, draws, browser, context, completion>>

SpecConcurrent == InitConcurrent /\ [][NextConcurrent]_vars

\* A call with the two URLs and every option left to its default.
InitExits ==
    /\ Init
    /\ args.given = {"urlA", "urlB"}

\* Every awaited call settles, and the sampling loop ends.
SpecExits == InitExits /\ [][Next]_vars /\ WF_vars(Next)

\* The positions inside the try block of compareScreenshots.
TryStages ==
    {"pages", "goto", "spa", "screenshot", "save", "evaluate", "metadata", "resize",
     "returned"} \cup AnalyzerStages

Saved == {r \in Requests : calls[r].pc \in {"analyze", "done"}}

PathsOf(r) == {calls[r].screenshots.pathA, calls[r].screenshots.pathB}

\* C30: however the requests interleave, no two of them write to the same
\* path, the two paths a request returns hold the screenshots it took
\* itself, and the two paths of one request are different.
C30_OwnScreenshots ==
    pc = "serving" =>
        /\ \A r1 \in Saved, r2 \in Saved : r1 # r2 => PathsOf(r1) \cap PathsOf(r2) = {}
        /\ \A r \in Saved :
              /\ files[calls[r].screenshots.pathA] = calls[r].screenshotA
              /\ files[calls[r].screenshots.pathB] = calls[r].screenshotB
              /\ calls[r].screenshots.pathA # calls[r].screenshots.pathB
====
